---------------------------- MODULE Spec2Model ----------------------------
(***************************************************************************)
(* Moderation and relay layer of the two-way support bot:                  *)
(*   services/model_service.py   ModelService and its four adapters        *)
(*   services/gemini_service.py  GeminiService (analysis, challenges,      *)
(*                               knowledge-base auto-reply)                *)
(*   utils/message_sender.py     send_message_by_type                      *)
(*   handlers/admin_handler.py   handle_admin_reply, view_filtered         *)
(*                                                                         *)
(* Texts are sequences of one-character strings.  The module's strings are *)
(* ASCII; a Chinese character of the source is written by its pinyin       *)
(* syllable, one syllable per character.                                   *)
(***************************************************************************)
EXTENDS Integers, Sequences, FiniteSets, TLC

VARIABLES
    adapter,                  \* model_service.adapter
    filter_model_name,        \* model_service.filter_model_name
    verification_model_name,  \* model_service.verification_model_name
    admins,                   \* persistence: the user ids is_admin accepts
    bindings,                 \* persistence: thread id -> user record or None
    filtered_messages,        \* persistence: the filtered-message log
    op,                       \* the operation handled last
    args,                     \* its inputs (arguments, configuration read, provider outcome)
    result,                   \* what it returned
    raised,                   \* the exception it propagated, or None
    calls,                    \* the outbound calls it made, in order
    pre,                      \* the model-service triple before it ran
    last_init                 \* how the latest initialization ended

vars == <<adapter, filter_model_name, verification_model_name, admins, bindings,
          filtered_messages, op, args, result, raised, calls, pre, last_init>>

-----------------------------------------------------------------------------
(* Python values *)

\* The dispatcher is between two events: no operation is being handled.
Idle == "idle"

\* Python's None, where the other values are strings or numbers.
None == "<None>"

\* Python's None, where the other values are texts (sequences of characters).
NoneText == <<None>>

\* Truthiness of an optional string: `not x` is true of None and of "".
Falsy(x) == x = None \/ x = ""

\* `a or b` on optional strings.
Or(a, b) == IF Falsy(a) THEN b ELSE a

\* Truthiness of an optional text or list: `not x` is true of None and of the empty one.
FalsyText(t) == t = NoneText \/ t = <<>>

\* A whitespace character (str.strip and the regex \s both take it).
WS == " "

RECURSIVE lstrip(_)
lstrip(t) == IF t # <<>> /\ Head(t) = WS THEN lstrip(Tail(t)) ELSE t

RECURSIVE rstrip(_)
rstrip(t) ==
    IF t # <<>> /\ t[Len(t)] = WS THEN rstrip(SubSeq(t, 1, Len(t) - 1)) ELSE t

\* str.strip()
strip(t) == rstrip(lstrip(t))

\* `needle in haystack` on texts.
Contains(haystack, needle) ==
    \E i \in 0..(Len(haystack) - Len(needle)) :
        SubSeq(haystack, i + 1, i + Len(needle)) = needle

UpperLetters ==
    <<"A", "B", "C", "D", "E", "F", "G", "H", "I", "J", "K", "L", "M",
      "N", "O", "P", "Q", "R", "S", "T", "U", "V", "W", "X", "Y", "Z">>

LowerLetters ==
    <<"a", "b", "c", "d", "e", "f", "g", "h", "i", "j", "k", "l", "m",
      "n", "o", "p", "q", "r", "s", "t", "u", "v", "w", "x", "y", "z">>

LowerChar(c) ==
    IF \E i \in DOMAIN UpperLetters : UpperLetters[i] = c
    THEN LowerLetters[CHOOSE i \in DOMAIN UpperLetters : UpperLetters[i] = c]
    ELSE c

\* str.lower()
lower(t) == [i \in DOMAIN t |-> LowerChar(t[i])]

-----------------------------------------------------------------------------
(* services/model_service.py *)

gemini == <<"g", "e", "m", "i", "n", "i">>
openai == <<"o", "p", "e", "n", "a", "i">>
claude == <<"c", "l", "a", "u", "d", "e">>
custom == <<"c", "u", "s", "t", "o", "m">>

\* The provider keys the model hands to initialize; azure is a key no branch takes.
Providers ==
    { gemini, <<"G", "e", "m", "i", "n", "i">>,
      openai, <<"O", "P", "E", "N", "A", "I">>,
      claude,
      custom, <<"C", "u", "s", "t", "o", "m">>, <<"C", "U", "S", "T", "O", "M">>,
      <<"a", "z", "u", "r", "e">>, <<>> }

BaseUrls == {None, "", "https://api.example/v1"}
FilterModels == {None, "", "fm"}
VerificationModels == {None, "vm"}
ApiKeys == {None, "", "key"}

\* The model-service fields as one record.
Triple(a, f, v) ==
    [adapter |-> a, filter_model_name |-> f, verification_model_name |-> v]

Current == Triple(adapter, filter_model_name, verification_model_name)

\* An adapter constructor: the backend client is built, or the SDK import fails.
\* CustomAPIAdapter.__init__ refuses an absent base_url before it builds anything.
ConstructAdapter(kind, base_url, sdk_ok) ==
    IF kind = "CustomAPIAdapter" /\ Falsy(base_url)
    THEN [raised |-> "ValueError", message |-> "base_url required", calls |-> <<>>]
    ELSE IF sdk_ok
    THEN [raised |-> None, message |-> None,
          calls |-> <<[api |-> "Client", adapter |-> kind, base_url |-> base_url]>>]
    ELSE [raised |-> "ImportError", message |-> "sdk missing", calls |-> <<>>]

\* initialize, custom branch: `if not base_url` (line 317).
CustomNeedsBaseUrl(base_url) == Falsy(base_url)

\* A variant of line 322 that accepts an absent filter model.
CustomNeedsFilterModel_Never(name) == FALSE

\* initialize, custom branch: `if not self.filter_model_name` (line 322).
CustomNeedsFilterModel(name) == Falsy(name)

\* The branches gemini, openai and claude: construct, then assign the three fields.
InitializeDefaulted(cur, kind, in, sdk_ok, default_filter, default_verification) ==
    LET c == ConstructAdapter(kind, in.base_url, sdk_ok) IN
    IF c.raised # None
    THEN [state |-> cur, raised |-> c.raised, message |-> c.message, calls |-> c.calls]
    ELSE [state |-> Triple(kind, Or(in.filter_model, default_filter),
                           Or(in.verification_model, default_verification)),
          raised |-> None, message |-> None, calls |-> c.calls]

\* The branch custom: base_url is checked before the adapter is built, the filter
\* model after the three fields are assigned.
InitializeCustom(cur, in, sdk_ok) ==
    IF CustomNeedsBaseUrl(in.base_url)
    THEN [state |-> cur, raised |-> "ValueError", message |-> "base_url required",
          calls |-> <<>>]
    ELSE LET c == ConstructAdapter("CustomAPIAdapter", in.base_url, sdk_ok)
             assigned == Triple("CustomAPIAdapter", in.filter_model,
                                Or(in.verification_model, in.filter_model))
         IN  IF c.raised # None
             THEN [state |-> cur, raised |-> c.raised, message |-> c.message,
                   calls |-> c.calls]
             ELSE IF CustomNeedsFilterModel(assigned.filter_model_name)
             THEN [state |-> assigned, raised |-> "ValueError",
                   message |-> "filter_model required", calls |-> c.calls]
             ELSE [state |-> assigned, raised |-> None, message |-> None,
                   calls |-> c.calls]

\* ModelService.initialize from the fields `cur`: the fields after the call, the
\* exception it raised (None: it returned) and the backend clients it built.
initialize(cur, in, sdk_ok) ==
    IF in.provider = NoneText
    THEN [state |-> cur, raised |-> "AttributeError", message |-> "no lower",
          calls |-> <<>>]
    ELSE LET provider == lower(in.provider) IN
         CASE provider = gemini ->
                InitializeDefaulted(cur, "GeminiAdapter", in, sdk_ok,
                                    "gemini-2.5-flash", "gemini-2.5-flash-lite")
           [] provider = openai ->
                InitializeDefaulted(cur, "OpenAIAdapter", in, sdk_ok,
                                    "gpt-4o-mini", "gpt-4o-mini")
           [] provider = claude ->
                InitializeDefaulted(cur, "AnthropicAdapter", in, sdk_ok,
                                    "claude-3-haiku-20240307", "claude-3-haiku-20240307")
           [] provider = custom -> InitializeCustom(cur, in, sdk_ok)
           [] OTHER -> [state |-> cur, raised |-> "ValueError",
                        message |-> "unsupported provider", calls |-> <<>>]

\* The arguments of one initialize call.
InitializeInputs ==
    [provider : Providers \cup {NoneText}, base_url : BaseUrls,
     filter_model : FilterModels, verification_model : VerificationModels]

\* The persistence and operation-record fields an operation leaves alone.
DbUnchanged == UNCHANGED <<admins, bindings, filtered_messages>>

\* The model-service fields become those of triple t.
SetTriple(t) ==
    /\ adapter' = t.adapter
    /\ filter_model_name' = t.filter_model_name
    /\ verification_model_name' = t.verification_model_name

\* A direct call of model_service.initialize(...).
ModelService_initialize ==
    /\ op = Idle
    /\ \E in \in InitializeInputs, sdk_ok \in BOOLEAN :
        LET out == initialize(Current, in, sdk_ok) IN
        /\ SetTriple(out.state)
        /\ op' = "initialize"
        /\ args' = [provider |-> in.provider, base_url |-> in.base_url,
                    filter_model |-> in.filter_model,
                    verification_model |-> in.verification_model, sdk_ok |-> sdk_ok]
        /\ result' = [message |-> out.message]
        /\ raised' = out.raised
        /\ calls' = out.calls
        /\ pre' = Current
        /\ last_init' = IF out.raised = None THEN "direct" ELSE "direct_raised"
        /\ DbUnchanged

-----------------------------------------------------------------------------
(* services/gemini_service.py: _initialize_model_service *)

Collapsed == Triple(None, None, None)

\* What _initialize_model_service reads of config.
ConfigInputs ==
    [AI_API_KEY : ApiKeys, AI_PROVIDER : Providers \cup {NoneText},
     AI_BASE_URL : BaseUrls, AI_FILTER_MODEL : FilterModels,
     AI_VERIFICATION_MODEL : VerificationModels]

\* A variant whose except clause only logs, leaving what initialize assigned.
InitializeModelService_NoReset(cur, cfg, sdk_ok) ==
    IF Falsy(cfg.AI_API_KEY)
    THEN [state |-> Collapsed, caught |-> None, calls |-> <<>>]
    ELSE LET out == initialize(cur,
                        [provider |-> cfg.AI_PROVIDER, base_url |-> cfg.AI_BASE_URL,
                         filter_model |-> cfg.AI_FILTER_MODEL,
                         verification_model |-> cfg.AI_VERIFICATION_MODEL], sdk_ok)
         IN  [state |-> out.state, caught |-> out.raised, calls |-> out.calls]

\* GeminiService._initialize_model_service: no key, or an exception of initialize,
\* sets the three fields to None.
InitializeModelService(cur, cfg, sdk_ok) ==
    IF Falsy(cfg.AI_API_KEY)
    THEN [state |-> Collapsed, caught |-> None, calls |-> <<>>]
    ELSE LET out == initialize(cur,
                        [provider |-> cfg.AI_PROVIDER, base_url |-> cfg.AI_BASE_URL,
                         filter_model |-> cfg.AI_FILTER_MODEL,
                         verification_model |-> cfg.AI_VERIFICATION_MODEL], sdk_ok)
         IN  IF out.raised # None
             THEN [state |-> Collapsed, caught |-> out.raised, calls |-> out.calls]
             ELSE [state |-> out.state, caught |-> None, calls |-> out.calls]

_initialize_model_service ==
    /\ op = Idle
    /\ \E cfg \in ConfigInputs, sdk_ok \in BOOLEAN :
        LET out == InitializeModelService(Current, cfg, sdk_ok) IN
        /\ SetTriple(out.state)
        /\ op' = "_initialize_model_service"
        /\ args' = [AI_API_KEY |-> cfg.AI_API_KEY, AI_PROVIDER |-> cfg.AI_PROVIDER,
                    AI_BASE_URL |-> cfg.AI_BASE_URL,
                    AI_FILTER_MODEL |-> cfg.AI_FILTER_MODEL,
                    AI_VERIFICATION_MODEL |-> cfg.AI_VERIFICATION_MODEL,
                    sdk_ok |-> sdk_ok]
        /\ result' = [caught |-> out.caught]
        /\ raised' = None
        /\ calls' = out.calls
        /\ pre' = Current
        /\ last_init' = IF Falsy(cfg.AI_API_KEY) \/ out.caught # None
                        THEN "collapsed" ELSE "initialized"
        /\ DbUnchanged

-----------------------------------------------------------------------------
(* The provider call and the texts a provider returns *)

MaxPad == 1      \* whitespace characters in one padding of a response
MaxBody == 1     \* JSON documents or other words in the body of a response
MaxPieces == 3   \* fragments an auto-reply response is made of

FENCE == "<fence>"   \* three backticks
JSON_WORD == "json"  \* the letters json, which are no JSON document

RECURSIVE Pad(_)
Pad(n) == IF n = 0 THEN <<>> ELSE <<WS>> \o Pad(n - 1)

RECURSIVE SeqsUpTo(_, _)
\* The sequences of at most n members of S.
SeqsUpTo(S, n) ==
    IF n = 0 THEN {<<>>}
    ELSE LET shorter == SeqsUpTo(S, n - 1) IN
         shorter \cup {<<x>> \o t : x \in S, t \in shorter}

RECURSIVE Flatten(_)
Flatten(ts) == IF ts = <<>> THEN <<>> ELSE Head(ts) \o Flatten(Tail(ts))

\* Responses around a body: padding and code fences before and after it.
FencedTexts(bodies) ==
    LET opening == {<<>>, <<FENCE>>, <<FENCE, JSON_WORD>>}
        closing == {<<>>, <<FENCE>>}
        prefixes == {Pad(i) \o f \o Pad(j) : i \in 0..MaxPad, j \in 0..MaxPad, f \in opening}
        suffixes == {Pad(i) \o f \o Pad(j) : i \in 0..MaxPad, j \in 0..MaxPad, f \in closing}
    IN  {p \o b \o s : p \in prefixes, b \in bodies, s \in suffixes}

\* ModelService.generate_content with an adapter set: the call of the adapter raises the
\* uniform provider error or returns the completion.  OpenAIAdapter, AnthropicAdapter
\* and CustomAPIAdapter raise on an empty completion; GeminiAdapter returns the text of
\* the first part as it is, the empty text and None included.
ProviderOutcomes(a, texts) ==
    {[kind |-> "raise", text |-> NoneText]}
        \cup {[kind |-> "return", text |-> t] : t \in texts \ {<<>>, NoneText}}
        \cup (IF a = "GeminiAdapter"
              THEN {[kind |-> "return", text |-> <<>>], [kind |-> "return", text |-> NoneText]}
              ELSE {})

NoProviderCall == [kind |-> "none", text |-> NoneText]

GenerateContentCall(model, contents) ==
    [api |-> "generate_content", adapter |-> adapter, model |-> model, contents |-> contents]

RECURSIVE re_sub_fence(_)
\* re.sub of the pattern (fence json \s*) | (\s* fence) by the empty text: at each
\* place the first alternative is
\* tried, then the second; a character neither matches is kept.
re_sub_fence(t) ==
    IF t = <<>> THEN <<>>
    ELSE IF Len(t) >= 2 /\ t[1] = FENCE /\ t[2] = JSON_WORD
    THEN re_sub_fence(lstrip(SubSeq(t, 3, Len(t))))
    ELSE LET r == lstrip(t) IN
         IF r # <<>> /\ Head(r) = FENCE
         THEN re_sub_fence(Tail(r))
         ELSE <<Head(t)>> \o re_sub_fence(Tail(t))

\* clean_text of lines 130, 194 and 249.
clean_text(response_text) == strip(re_sub_fence(response_text))

\* json.loads(text) succeeds when the text is one JSON document of `documents`
\* (a record: token -> parsed value), and raises JSONDecodeError otherwise.
JsonValid(text, documents) == Len(text) = 1 /\ text[1] \in DOMAIN documents

-----------------------------------------------------------------------------
(* services/gemini_service.py: analyze_message *)

\* The JSON documents a provider answers an analysis with.
AnalysisDocuments ==
    [V_SPAM |-> [is_spam |-> TRUE, reason |-> "abuse"],
     V_HAM |-> [is_spam |-> FALSE, reason |-> "no violation found"]]

AnalysisResponses ==
    FencedTexts(SeqsUpTo(DOMAIN AnalysisDocuments \cup {JSON_WORD}, MaxBody))

MessageTexts == {NoneText, <<>>, <<"h", "i">>}
ImageBytes == {None, "", "png", "corrupt"}

\* Image.open(io.BytesIO(image_bytes)) returns an image.
Decodes(image_bytes) == image_bytes = "png"

\* A variant of line 88 that does not read ENABLE_AI_FILTER.
FilterDisabled_IgnoreFlag(a, f, enable) == Falsy(a) \/ Falsy(f)

\* Line 88.
FilterDisabled(a, f, enable) == Falsy(a) \/ Falsy(f) \/ ~enable

\* Lines 91-108: the content parts of a message and an image.
AnalysisContent(text, image_bytes) ==
    (IF ~FalsyText(text) THEN <<"text">> ELSE <<>>)
        \o (IF ~Falsy(image_bytes) /\ Decodes(image_bytes) THEN <<"image">> ELSE <<>>)

\* A variant of line 141 that blocks the message when the analysis fails.
AnalysisFailed_Block == [is_spam |-> TRUE, reason |-> "Analysis failed"]

\* Line 141.
AnalysisFailed == [is_spam |-> FALSE, reason |-> "Analysis failed"]

\* Lines 118-141: the verdict for one outcome of the provider call.
AnalysisVerdict(po) ==
    IF po.kind = "raise" \/ FalsyText(po.text)
    THEN AnalysisFailed
    ELSE LET text == clean_text(po.text) IN
         IF JsonValid(text, AnalysisDocuments)
         THEN AnalysisDocuments[text[1]]
         ELSE [is_spam |-> FALSE, reason |-> "Analysis failed - JSON parse error"]

\* The fields of an operation that leaves the model service and the persistence alone.
ServiceUnchanged ==
    /\ UNCHANGED <<adapter, filter_model_name, verification_model_name, last_init>>
    /\ pre' = Current
    /\ DbUnchanged

\* Line 113 reads config.AI_PROVIDER, which is a string whenever an adapter is set:
\* the adapter is built from it.
analyze_message ==
    /\ op = Idle
    /\ \E text \in MessageTexts, image_bytes \in ImageBytes, enable \in BOOLEAN :
        LET content == AnalysisContent(text, image_bytes)
            disabled == FilterDisabled(adapter, filter_model_name, enable)
            called == ~disabled /\ content # <<>>
        IN
        \E po \in IF called THEN ProviderOutcomes(adapter, AnalysisResponses)
                  ELSE {NoProviderCall} :
            /\ op' = "analyze_message"
            /\ args' = [text |-> text, image_bytes |-> image_bytes,
                        ENABLE_AI_FILTER |-> enable, provider |-> po]
            /\ result' = IF disabled
                         THEN [is_spam |-> FALSE, reason |-> "AI filter disabled"]
                         ELSE IF content = <<>>
                         THEN [is_spam |-> FALSE, reason |-> "No content to analyze"]
                         ELSE AnalysisVerdict(po)
            /\ calls' = IF called
                        THEN <<GenerateContentCall(filter_model_name,
                                                   content \o <<"prompt">>)>>
                        ELSE <<>>
            /\ raised' = None
            /\ ServiceUnchanged

-----------------------------------------------------------------------------
(* services/gemini_service.py: the challenge generators *)

\* The 29 entries of lines 11-39, each text in English.  Two entries of the source
\* that share a text share it here: the orange of entry 7 is the colour and that of
\* entry 17 the fruit, and the east of entry 4 is a two-character word and that of
\* entry 28 a one-character word, so these differ as they do in the source.
LOCAL_VERIFICATION_QUESTIONS ==
    <<
      [question |-> "What is the capital of China?", correct_answer |-> "Beijing",
       incorrect_answers |-> <<"Shanghai", "Guangzhou", "Shenzhen">>],
      [question |-> "How many months are in a year?", correct_answer |-> "12",
       incorrect_answers |-> <<"10", "11", "13">>],
      [question |-> "How many days are in a week?", correct_answer |-> "7",
       incorrect_answers |-> <<"5", "6", "8">>],
      [question |-> "From which direction does the sun rise?", correct_answer |-> "east",
       incorrect_answers |-> <<"west", "south", "north">>],
      [question |-> "What is the chemical formula of water?", correct_answer |-> "H2O",
       incorrect_answers |-> <<"CO2", "O2", "NaCl">>],
      [question |-> "Which is the largest ocean on Earth?", correct_answer |-> "Pacific Ocean",
       incorrect_answers |-> <<"Atlantic Ocean", "Indian Ocean", "Arctic Ocean">>],
      [question |-> "Which colour is the first colour of the rainbow?", correct_answer |-> "red",
       incorrect_answers |-> <<"orange", "yellow", "green">>],
      [question |-> "How many hearts does the human body have?", correct_answer |-> "1",
       incorrect_answers |-> <<"2", "3", "4">>],
      [question |-> "Which season is the hottest?", correct_answer |-> "summer",
       incorrect_answers |-> <<"spring", "autumn", "winter">>],
      [question |-> "Which is the largest planet?", correct_answer |-> "Jupiter",
       incorrect_answers |-> <<"Saturn", "Uranus", "Neptune">>],
      [question |-> "How many stars are on the flag of China?", correct_answer |-> "5",
       incorrect_answers |-> <<"3", "4", "6">>],
      [question |-> "Which is a mammal?", correct_answer |-> "dog",
       incorrect_answers |-> <<"fish", "bird", "snake">>],
      [question |-> "Which is a fruit?", correct_answer |-> "apple",
       incorrect_answers |-> <<"carrot", "potato", "onion">>],
      [question |-> "Which is a vehicle?", correct_answer |-> "car",
       incorrect_answers |-> <<"table", "chair", "bed">>],
      [question |-> "Which is a colour?", correct_answer |-> "blue",
       incorrect_answers |-> <<"number", "letter", "symbol">>],
      [question |-> "Which of these is not a planet?", correct_answer |-> "Moon",
       incorrect_answers |-> <<"Earth", "Mars", "Venus">>],
      [question |-> "Which of these is not a fruit?", correct_answer |-> "carrot",
       incorrect_answers |-> <<"apple", "banana", "orange fruit">>],
      [question |-> "Which of these is not a vehicle?", correct_answer |-> "house",
       incorrect_answers |-> <<"car", "plane", "train">>],
      [question |-> "Which of these is not a colour?", correct_answer |-> "number",
       incorrect_answers |-> <<"red", "blue", "green">>],
      [question |-> "Which of these is not a mammal?", correct_answer |-> "fish",
       incorrect_answers |-> <<"cat", "dog", "cow">>],
      [question |-> "Which of these is not a vegetable?", correct_answer |-> "apple",
       incorrect_answers |-> <<"cabbage", "radish", "cucumber">>],
      [question |-> "Which of these is not a bird?", correct_answer |-> "dog",
       incorrect_answers |-> <<"sparrow", "pigeon", "swallow">>],
      [question |-> "Which of these is not a metal?", correct_answer |-> "wood",
       incorrect_answers |-> <<"iron", "copper", "aluminium">>],
      [question |-> "Which of these is not a drink?", correct_answer |-> "rice",
       incorrect_answers |-> <<"water", "tea", "coffee">>],
      [question |-> "Which of these is not a school supply?", correct_answer |-> "television",
       incorrect_answers |-> <<"pen", "notebook", "eraser">>],
      [question |-> "Which of these is not a sport?", correct_answer |-> "sleeping",
       incorrect_answers |-> <<"running", "swimming", "basketball">>],
      [question |-> "Which of these is not a season?", correct_answer |-> "week",
       incorrect_answers |-> <<"spring", "summer", "autumn">>],
      [question |-> "Which of these is not a direction?", correct_answer |-> "up and down",
       incorrect_answers |-> <<"east dir", "south dir", "west dir">>],
      [question |-> "Which of these is not a number?", correct_answer |-> "letter",
       incorrect_answers |-> <<"1", "2", "3">>]
    >>

\* random.shuffle(options): the orders it can leave the list in.
Shuffles(options) ==
    {[i \in DOMAIN options |-> options[p[i]]] : p \in Permutations(DOMAIN options)}

\* Lines 145-146, 197-198 and 252-253.
Options(data) == data.incorrect_answers \o <<data.correct_answer>>

\* _get_local_question: the questions it can return.
LocalQuestions ==
    UNION {{[question |-> question_data.question,
             correct_answer |-> question_data.correct_answer,
             options |-> o] : o \in Shuffles(Options(question_data))} :
           question_data \in {LOCAL_VERIFICATION_QUESTIONS[i] :
                                  i \in DOMAIN LOCAL_VERIFICATION_QUESTIONS}}

\* The JSON documents a provider answers a challenge prompt with.  keys: the keys of
\* the object (none when the document is no object); list: incorrect_answers is a list.
ChallengeDocuments ==
    [Q_OK |-> [keys |-> {"question", "correct_answer", "incorrect_answers"}, list |-> TRUE,
               question |-> "q", correct_answer |-> "a",
               incorrect_answers |-> <<"b", "c", "d">>],
     Q_TWO |-> [keys |-> {"question", "correct_answer", "incorrect_answers"}, list |-> TRUE,
                question |-> "q", correct_answer |-> "a",
                incorrect_answers |-> <<"b", "c">>],
     Q_FOUR |-> [keys |-> {"question", "correct_answer", "incorrect_answers"}, list |-> TRUE,
                 question |-> "q", correct_answer |-> "a",
                 incorrect_answers |-> <<"b", "c", "d", "e">>],
     Q_SAME |-> [keys |-> {"question", "correct_answer", "incorrect_answers"}, list |-> TRUE,
                 question |-> "q", correct_answer |-> "a",
                 incorrect_answers |-> <<"a", "b", "c">>],
     Q_NO_INCORRECT |-> [keys |-> {"question", "correct_answer"}, list |-> FALSE,
                         question |-> "q", correct_answer |-> "a",
                         incorrect_answers |-> <<>>],
     Q_NO_QUESTION |-> [keys |-> {"correct_answer", "incorrect_answers"}, list |-> TRUE,
                        question |-> "", correct_answer |-> "a",
                        incorrect_answers |-> <<"b", "c", "d">>],
     Q_STRING |-> [keys |-> {"question", "correct_answer", "incorrect_answers"},
                   list |-> FALSE,
                   question |-> "q", correct_answer |-> "a",
                   incorrect_answers |-> <<>>],
     Q_ARRAY |-> [keys |-> {}, list |-> FALSE, question |-> "", correct_answer |-> "",
                  incorrect_answers |-> <<>>]]

ChallengeResponses ==
    FencedTexts(SeqsUpTo(DOMAIN ChallengeDocuments \cup {JSON_WORD}, MaxBody))

\* A variant of lines 197-204 that reads the question with data.get('question', ''),
\* so that an object without a question goes through.
ChallengeParse_QuestionOptional(po) ==
    IF po.kind = "raise" THEN [failure |-> "provider error", token |-> None]
    ELSE IF FalsyText(po.text) THEN [failure |-> "empty response", token |-> None]
    ELSE LET text == clean_text(po.text) IN
         IF ~JsonValid(text, ChallengeDocuments)
         THEN [failure |-> "json", token |-> None]
         ELSE LET data == ChallengeDocuments[text[1]] IN
              IF "correct_answer" \notin data.keys \/ "incorrect_answers" \notin data.keys
              THEN [failure |-> "missing field", token |-> text[1]]
              ELSE IF ~data.list
              THEN [failure |-> "type error", token |-> text[1]]
              ELSE [failure |-> None, token |-> text[1]]

\* Lines 185-205 up to the shuffle: how the provider call ended, and the parsed
\* object when the lines 197-198 went through.
ChallengeParse(po) ==
    IF po.kind = "raise" THEN [failure |-> "provider error", token |-> None]
    ELSE IF FalsyText(po.text) THEN [failure |-> "empty response", token |-> None]
    ELSE LET text == clean_text(po.text) IN
         IF ~JsonValid(text, ChallengeDocuments)
         THEN [failure |-> "json", token |-> None]
         ELSE LET data == ChallengeDocuments[text[1]] IN
              IF "correct_answer" \notin data.keys \/ "incorrect_answers" \notin data.keys
              THEN [failure |-> "missing field", token |-> text[1]]
              ELSE IF ~data.list
              THEN [failure |-> "type error", token |-> text[1]]
              ELSE IF "question" \notin data.keys
              THEN [failure |-> "missing field", token |-> text[1]]
              ELSE [failure |-> None, token |-> text[1]]

\* Line 156 and line 211.
NoVerificationModel(a, v) == Falsy(a) \/ Falsy(v)

\* How one call of a generator can go: without a provider call (lines 156-157 and
\* 211-212), or with one call and what it brought.
ChallengeParses(a, v) ==
    IF NoVerificationModel(a, v) THEN {[failure |-> "no model", token |-> None]}
    ELSE {ChallengeParse(po) : po \in ProviderOutcomes(a, ChallengeResponses)}

\* The questions a generator can return: lines 197-205 and 252-260 for a parsed
\* object, _get_local_question for every failure (lines 206-208 and 261-263).
ChallengeQuestions(parse) ==
    IF parse.failure # None THEN LocalQuestions
    ELSE LET data == ChallengeDocuments[parse.token] IN
         {[question |-> data.question, correct_answer |-> data.correct_answer,
           options |-> o] : o \in Shuffles(Options(data))}

\* generate_unblock_question and generate_verification_challenge hold the same lines.
GenerateChallenge(name) ==
    /\ op = Idle
    /\ \E parse \in ChallengeParses(adapter, verification_model_name) :
        \E question \in ChallengeQuestions(parse) :
            /\ op' = name
            /\ args' = [provider |-> parse]
            /\ result' = question
            /\ calls' = IF parse.failure = "no model" THEN <<>>
                        ELSE <<GenerateContentCall(verification_model_name, <<"prompt">>)>>
            /\ raised' = None
            /\ ServiceUnchanged

generate_unblock_question == GenerateChallenge("generate_unblock_question")

generate_verification_challenge == GenerateChallenge("generate_verification_challenge")

-----------------------------------------------------------------------------
(* services/gemini_service.py: generate_autoreply *)

\* "bao qian" (sorry), line 303.
SORRY == <<"bao", "qian">>

\* "wu fa gen ju xian you zhi shi ku" (cannot, from the current knowledge base), line 303.
CANNOT_FROM_KB == <<"wu", "fa", "gen", "ju", "xian", "you", "zhi", "shi", "ku">>

\* The fragments the responses of the model are made of.
ReplyPieces ==
    { <<"bao">>, <<"qian">>, <<WS>>, <<"a">>,
      SubSeq(CANNOT_FROM_KB, 1, 6), SubSeq(CANNOT_FROM_KB, 7, 9) }

AutoreplyResponses == {Flatten(ps) : ps \in SeqsUpTo(ReplyPieces, MaxPieces)}

KnowledgeBases == {NoneText, <<>>, <<WS>>, <<WS, WS>>, <<"k">>, <<WS, "k", WS>>}
UserMessages == {<<>>, <<"q">>}

\* Line 266.
NoFilterModel(a, f) == Falsy(a) \/ Falsy(f)

\* A variant of line 269 without the test of the stripped text.
BlankKnowledgeBase_EmptyOnly(kb) == FalsyText(kb)

\* Line 269.
BlankKnowledgeBase(kb) == FalsyText(kb) \/ strip(kb) = <<>>

\* A variant of line 303 that looks for the refusal at the start of the response only.
Suppressed_Prefix(response_text) ==
    \/ /\ Len(response_text) >= Len(CANNOT_FROM_KB)
       /\ SubSeq(response_text, 1, Len(CANNOT_FROM_KB)) = CANNOT_FROM_KB
    \/ /\ Len(response_text) >= Len(SORRY)
       /\ SubSeq(response_text, 1, Len(SORRY)) = SORRY

\* Line 303.
Suppressed(response_text) ==
    Contains(response_text, CANNOT_FROM_KB) \/ Contains(response_text, SORRY)

Absent == [absent |-> TRUE, text |-> <<>>]

\* Lines 294-309: what generate_autoreply returns for one outcome of the provider call.
AutoreplyResult(po) ==
    IF po.kind = "raise" \/ FalsyText(po.text) THEN Absent
    ELSE IF Suppressed(po.text) THEN Absent
    ELSE [absent |-> FALSE, text |-> strip(po.text)]

generate_autoreply ==
    /\ op = Idle
    /\ \E user_message \in UserMessages, kb \in KnowledgeBases :
        LET called == ~NoFilterModel(adapter, filter_model_name) /\ ~BlankKnowledgeBase(kb) IN
        \E po \in IF called THEN ProviderOutcomes(adapter, AutoreplyResponses)
                  ELSE {NoProviderCall} :
            /\ op' = "generate_autoreply"
            /\ args' = [user_message |-> user_message, knowledge_base_content |-> kb,
                        provider |-> po]
            /\ result' = IF called THEN AutoreplyResult(po) ELSE Absent
            /\ calls' = IF called
                        THEN <<GenerateContentCall(filter_model_name, <<"prompt">>)>>
                        ELSE <<>>
            /\ raised' = None
            /\ ServiceUnchanged

-----------------------------------------------------------------------------
(* The AI services: the model service and GeminiService *)

NoDb ==
    /\ admins = {}
    /\ bindings = {}
    /\ filtered_messages = <<>>

NoRecord == [none |-> TRUE]

\* The caller has taken the result of the operation handled last; the next event
\* can be dispatched.
Return ==
    /\ op # Idle
    /\ op' = Idle
    /\ args' = NoRecord
    /\ result' = NoRecord
    /\ raised' = None
    /\ calls' = <<>>
    /\ ServiceUnchanged

\* ModelService() of line 346, before gemini_service is constructed.
Init ==
    /\ adapter = None
    /\ filter_model_name = None
    /\ verification_model_name = None
    /\ NoDb
    /\ op = Idle
    /\ args = NoRecord
    /\ result = NoRecord
    /\ raised = None
    /\ calls = <<>>
    /\ pre = Collapsed
    /\ last_init = "none"

Next ==
    \/ ModelService_initialize
    \/ _initialize_model_service
    \/ analyze_message
    \/ generate_unblock_question
    \/ generate_verification_challenge
    \/ generate_autoreply
    \/ Return

Spec == Init /\ [][Next]_vars

-----------------------------------------------------------------------------
(* utils/message_sender.py and handlers/admin_handler.py: the relay *)

MaxPopulated == 2    \* media fields one message of the model populates
MaxPhotoSizes == 2   \* sizes in the photo list of a message

\* The nine media fields, in the order both dispatchers test them.
MediaKinds ==
    <<"text", "photo", "animation", "video", "document", "audio", "voice",
      "video_note", "sticker">>

ThreadIds == {"42", "43"}
UserIds == {"777", "778"}
ChatIds == {"777", "-1001"}

\* The photo lists: the file ids of the sizes, the smallest first.
PhotoLists == {[i \in 1..n |-> <<"photo_s1", "photo_s2", "photo_s3", "photo_s4">>[i]] :
                   n \in 1..MaxPhotoSizes}

\* A message with the media fields `populated`.  A field holds the file id of its
\* media (text: the text; photo: the list of sizes), and None, the empty text or the
\* empty list when the message has no such media.
MessagesOf(populated) ==
    [text : IF "text" \in populated THEN {"resolved"} ELSE {None, ""},
     entities : IF "text" \in populated THEN {None, "entities"} ELSE {None},
     photo : IF "photo" \in populated THEN PhotoLists ELSE {<<>>},
     animation : IF "animation" \in populated THEN {"animation_id"} ELSE {None},
     video : IF "video" \in populated THEN {"video_id"} ELSE {None},
     document : IF "document" \in populated THEN {"document_id"} ELSE {None},
     audio : IF "audio" \in populated THEN {"audio_id"} ELSE {None},
     voice : IF "voice" \in populated THEN {"voice_id"} ELSE {None},
     video_note : IF "video_note" \in populated THEN {"video_note_id"} ELSE {None},
     sticker : IF "sticker" \in populated THEN {"sticker_id"} ELSE {None},
     caption : {None, "caption"},
     caption_entities : {None, "caption_entities"}]

Range(f) == {f[i] : i \in DOMAIN f}

Messages ==
    UNION {MessagesOf(populated) :
               populated \in {P \in SUBSET Range(MediaKinds) : Cardinality(P) <= MaxPopulated}}

\* `if message.<kind>`: the field is truthy.
Populated(message, kind) ==
    CASE kind = "text" -> ~Falsy(message.text)
      [] kind = "photo" -> message.photo # <<>>
      [] kind = "animation" -> ~Falsy(message.animation)
      [] kind = "video" -> ~Falsy(message.video)
      [] kind = "document" -> ~Falsy(message.document)
      [] kind = "audio" -> ~Falsy(message.audio)
      [] kind = "voice" -> ~Falsy(message.voice)
      [] kind = "video_note" -> ~Falsy(message.video_note)
      [] kind = "sticker" -> ~Falsy(message.sticker)

PopulatedKinds(message) == {k \in Range(MediaKinds) : Populated(message, k)}

\* A variant of message.photo[-1] that takes the first size.
LastPhoto_First(photo) == photo[1]

\* message.photo[-1].file_id
LastPhoto(photo) == photo[Len(photo)]

\* A variant of the if/elif chain that tests document before animation.
DispatchOrder_DocumentFirst ==
    <<"text", "photo", "document", "animation", "video", "audio", "voice",
      "video_note", "sticker">>

\* The order of the if/elif chain.
DispatchOrder == MediaKinds

\* The branch the if/elif chain takes: the first populated kind, None when no field
\* is populated.
FirstKind(message) ==
    IF \E i \in DOMAIN DispatchOrder : Populated(message, DispatchOrder[i])
    THEN DispatchOrder[CHOOSE i \in DOMAIN DispatchOrder :
                          /\ Populated(message, DispatchOrder[i])
                          /\ \A j \in 1..(i - 1) : ~Populated(message, DispatchOrder[j])]
    ELSE None

\* send_message_by_type: the bot calls it awaits, each with its keyword arguments.
SendByTypeCalls(message, chat_id, thread_id, disable_web_page_preview) ==
    LET kind == FirstKind(message) IN
    CASE kind = "text" ->
           <<[api |-> "send_message", chat_id |-> chat_id, text |-> message.text,
              entities |-> message.entities, message_thread_id |-> thread_id,
              disable_web_page_preview |-> disable_web_page_preview]>>
      [] kind = "photo" ->
           <<[api |-> "send_photo", chat_id |-> chat_id, photo |-> LastPhoto(message.photo),
              caption |-> message.caption, caption_entities |-> message.caption_entities,
              message_thread_id |-> thread_id]>>
      [] kind = "animation" ->
           <<[api |-> "send_animation", chat_id |-> chat_id, animation |-> message.animation,
              caption |-> message.caption, caption_entities |-> message.caption_entities,
              message_thread_id |-> thread_id]>>
      [] kind = "video" ->
           <<[api |-> "send_video", chat_id |-> chat_id, video |-> message.video,
              caption |-> message.caption, caption_entities |-> message.caption_entities,
              message_thread_id |-> thread_id]>>
      [] kind = "document" ->
           <<[api |-> "send_document", chat_id |-> chat_id, document |-> message.document,
              caption |-> message.caption, caption_entities |-> message.caption_entities,
              message_thread_id |-> thread_id]>>
      [] kind = "audio" ->
           <<[api |-> "send_audio", chat_id |-> chat_id, audio |-> message.audio,
              caption |-> message.caption, caption_entities |-> message.caption_entities,
              message_thread_id |-> thread_id]>>
      [] kind = "voice" ->
           <<[api |-> "send_voice", chat_id |-> chat_id, voice |-> message.voice,
              caption |-> message.caption, caption_entities |-> message.caption_entities,
              message_thread_id |-> thread_id]>>
      [] kind = "video_note" ->
           <<[api |-> "send_video_note", chat_id |-> chat_id,
              video_note |-> message.video_note, message_thread_id |-> thread_id]>>
      [] kind = "sticker" ->
           <<[api |-> "send_sticker", chat_id |-> chat_id, sticker |-> message.sticker,
              message_thread_id |-> thread_id]>>
      [] OTHER -> <<>>

\* What an awaited bot call brings: the sent message, or the error of the transport,
\* which neither dispatcher catches.
Transport == {"sent", "TelegramError"}

send_message_by_type ==
    /\ op = Idle
    /\ \E message \in Messages, chat_id \in ChatIds, thread_id \in ThreadIds \cup {None},
          disable_web_page_preview \in BOOLEAN, transport \in Transport :
        LET sends == SendByTypeCalls(message, chat_id, thread_id, disable_web_page_preview)
            failed == sends # <<>> /\ transport = "TelegramError"
        IN
        /\ sends = <<>> => transport = "sent"
        /\ op' = "send_message_by_type"
        /\ args' = [message |-> message, chat_id |-> chat_id, thread_id |-> thread_id,
                    disable_web_page_preview |-> disable_web_page_preview]
        /\ calls' = sends
        /\ raised' = IF failed THEN "TelegramError" ELSE None
        /\ result' = [returned |-> IF sends = <<>> \/ failed THEN None ELSE "sent message"]
        /\ ServiceUnchanged

\* A variant of _send_reply_to_user that hands the message to
\* send_message_by_type(context.bot, message, user_id).
SendReplyToUserCalls_Delegating(message, user_id) ==
    SendByTypeCalls(message, user_id, None, FALSE)

\* _send_reply_to_user: the bot calls it awaits, each with its keyword arguments.
SendReplyToUserCalls(message, user_id) ==
    LET kind == FirstKind(message) IN
    CASE kind = "text" ->
           <<[api |-> "send_message", chat_id |-> user_id, text |-> message.text,
              entities |-> message.entities, disable_web_page_preview |-> TRUE]>>
      [] kind = "photo" ->
           <<[api |-> "send_photo", chat_id |-> user_id, photo |-> LastPhoto(message.photo),
              caption |-> message.caption, caption_entities |-> message.caption_entities]>>
      [] kind = "animation" ->
           <<[api |-> "send_animation", chat_id |-> user_id, animation |-> message.animation,
              caption |-> message.caption, caption_entities |-> message.caption_entities]>>
      [] kind = "video" ->
           <<[api |-> "send_video", chat_id |-> user_id, video |-> message.video,
              caption |-> message.caption, caption_entities |-> message.caption_entities]>>
      [] kind = "document" ->
           <<[api |-> "send_document", chat_id |-> user_id, document |-> message.document,
              caption |-> message.caption, caption_entities |-> message.caption_entities]>>
      [] kind = "audio" ->
           <<[api |-> "send_audio", chat_id |-> user_id, audio |-> message.audio,
              caption |-> message.caption, caption_entities |-> message.caption_entities]>>
      [] kind = "voice" ->
           <<[api |-> "send_voice", chat_id |-> user_id, voice |-> message.voice,
              caption |-> message.caption, caption_entities |-> message.caption_entities]>>
      [] kind = "video_note" ->
           <<[api |-> "send_video_note", chat_id |-> user_id,
              video_note |-> message.video_note]>>
      [] kind = "sticker" ->
           <<[api |-> "send_sticker", chat_id |-> user_id, sticker |-> message.sticker]>>
      [] OTHER -> <<>>

\* db.get_user_by_thread_id: the rows of the binding table for a thread.
get_user_by_thread_id(thread_id) == {row \in bindings : row.thread_id = thread_id}

\* A variant of line 70 that does not test is_topic_message.
NotATopicMessage_Ignored(has_message, is_topic_message) == ~has_message

\* Line 70.
NotATopicMessage(has_message, is_topic_message) == ~has_message \/ ~is_topic_message

\* A variant of lines 76-82 that sends although no row was found, to the thread id.
AdminReplyCalls_Unbound(message, thread_id) ==
    LET users == get_user_by_thread_id(thread_id)
        lookup == <<[api |-> "get_user_by_thread_id", thread_id |-> thread_id]>>
    IN  IF users = {} THEN lookup \o SendReplyToUserCalls(message, thread_id)
        ELSE lookup \o SendReplyToUserCalls(message, (CHOOSE row \in users : TRUE).user_id)

\* Lines 73-82: the lookup, then the relay to the user of the row.
AdminReplyCalls(message, thread_id) ==
    LET users == get_user_by_thread_id(thread_id)
        lookup == <<[api |-> "get_user_by_thread_id", thread_id |-> thread_id]>>
    IN  IF users = {} THEN lookup
        ELSE lookup \o SendReplyToUserCalls(message, (CHOOSE row \in users : TRUE).user_id)

handle_admin_reply ==
    /\ op = Idle
    /\ \E has_message \in BOOLEAN, is_topic_message \in BOOLEAN, message \in Messages,
          thread_id \in ThreadIds \cup {None}, transport \in Transport :
        LET ignored == NotATopicMessage(has_message, is_topic_message)
            made == IF ignored THEN <<>> ELSE AdminReplyCalls(message, thread_id)
            failed == Len(made) > 1 /\ transport = "TelegramError"
        IN
        \* a topic message carries the id of its thread
        /\ has_message /\ is_topic_message => thread_id # None
        /\ Len(made) <= 1 => transport = "sent"
        /\ op' = "handle_admin_reply"
        /\ args' = [has_message |-> has_message, is_topic_message |-> is_topic_message,
                    message |-> message, message_thread_id |-> thread_id]
        /\ calls' = made
        /\ raised' = IF failed THEN "TelegramError" ELSE None
        /\ result' = [returned |-> None]
        /\ ServiceUnchanged

\* The binding tables: each thread bound to one user or to none.
BindingTables ==
    {{[thread_id |-> t, user_id |-> f[t]] : t \in {x \in ThreadIds : f[x] # None}} :
        f \in [ThreadIds -> UserIds \cup {None}]}

InitRelay ==
    /\ adapter = None
    /\ filter_model_name = None
    /\ verification_model_name = None
    /\ admins = {}
    /\ bindings \in BindingTables
    /\ filtered_messages = <<>>
    /\ op = Idle
    /\ args = NoRecord
    /\ result = NoRecord
    /\ raised = None
    /\ calls = <<>>
    /\ pre = Collapsed
    /\ last_init = "none"

NextRelay ==
    \/ send_message_by_type
    \/ handle_admin_reply
    \/ Return

SpecRelay == InitRelay /\ [][NextRelay]_vars

-----------------------------------------------------------------------------
(* handlers/admin_handler.py: the filtered-message browser *)

MaxRecords == 12       \* records in the filtered-message log
MaxContentLen == 102   \* characters in the content of a record

MESSAGES_PER_PAGE == 5
CONTENT_LIMIT == 100

\* "nin mei you quan xian zhi xing ci cao zuo." (line 128)
NO_PERMISSION == "You do not have permission to perform this operation."

\* "mei you zhao dao bei guo lv de xiao xi." (lines 137 and 147)
NOT_FOUND == "No filtered messages found."

NA == "N/A"
NA_TEXT == <<"N", "/", "A">>
ELLIPSIS == <<".", ".", ".">>

Digits == <<"0", "1", "2", "3", "4", "5", "6", "7", "8", "9">>

\* A content of n characters, the character at place i being the last digit of i.
Content(n) == [i \in 1..n |-> Digits[(i % 10) + 1]]

Contents == {NoneText} \cup {Content(n) : n \in 0..MaxContentLen}

\* Record i of a log whose first record has the content `first`; the other fields
\* are present, empty or absent by the place of the record.
Record(i, first) ==
    [first_name |-> IF i % 2 = 1 THEN "Ann" ELSE None,
     username |-> IF i % 3 = 1 THEN "ann" ELSE IF i % 3 = 2 THEN "" ELSE None,
     reason |-> IF i % 2 = 0 THEN "abuse" ELSE None,
     content |-> IF i = 1 THEN first ELSE Content((i * 41) % (MaxContentLen + 1)),
     filtered_at |-> IF i % 4 = 0 THEN None ELSE "2025-01-01 00:00:00"]

Logs == {[i \in 1..n |-> Record(i, first)] : n \in 0..MaxRecords, first \in Contents}

\* db.is_admin
is_admin(user_id) == user_id \in admins

\* db.get_filtered_messages_count
get_filtered_messages_count == Len(filtered_messages)

Min(a, b) == IF a < b THEN a ELSE b

\* db.get_filtered_messages(limit, offset)
get_filtered_messages(limit, offset) ==
    SubSeq(filtered_messages, offset + 1, Min(offset + limit, Len(filtered_messages)))

\* `msg.get(key) or 'N/A'` on an optional string.
OrNA(x) == IF Falsy(x) THEN NA ELSE x

\* A variant of line 94 that reads len(content) >= 100.
RenderContent_CutAtLimit(content) ==
    LET shown == IF FalsyText(content) THEN NA_TEXT ELSE content IN
    IF Len(shown) >= CONTENT_LIMIT
    THEN SubSeq(shown, 1, CONTENT_LIMIT) \o ELLIPSIS
    ELSE shown

\* Lines 91-95: the content as the listing shows it.
RenderContent(content) ==
    LET shown == IF FalsyText(content) THEN NA_TEXT ELSE content IN
    IF Len(shown) > CONTENT_LIMIT
    THEN SubSeq(shown, 1, CONTENT_LIMIT) \o ELLIPSIS
    ELSE shown

\* The text a reply carries: a fixed sentence, or the listing of a page (its header
\* and its numbered entries).
FixedText(sentence) == [literal |-> sentence, header |-> <<>>, entries |-> <<>>]

\* _format_filtered_messages
FormatFilteredMessages(messages, page, total_pages) ==
    [literal |-> "",
     header |-> <<page, total_pages>>,
     entries |-> [idx \in DOMAIN messages |->
                     [idx |-> idx,
                      first_name |-> OrNA(messages[idx].first_name),
                      username |-> OrNA(messages[idx].username),
                      reason |-> OrNA(messages[idx].reason),
                      content |-> RenderContent(messages[idx].content),
                      filtered_at |-> OrNA(messages[idx].filtered_at)]]]

\* "shang yi ye" (previous page) and "xia yi ye" (next page), lines 116 and 119.
PREVIOUS_PAGE == "previous page"
NEXT_PAGE == "next page"

\* callback_data: the text filtered_page_ and the number after it.
CallbackData(target) == [prefix |-> "filtered_page_", page |-> target]

\* A variant of _get_filtered_messages_keyboard whose line 118 reads
\* page <= total_pages.
FilteredMessagesKeyboard_NextOnLast(page, total_pages) ==
    IF total_pages <= 1 THEN <<>>
    ELSE <<(IF page > 1
            THEN <<[text |-> PREVIOUS_PAGE, callback_data |-> CallbackData(page - 1)]>>
            ELSE <<>>)
           \o (IF page <= total_pages
               THEN <<[text |-> NEXT_PAGE, callback_data |-> CallbackData(page + 1)]>>
               ELSE <<>>)>>

\* _get_filtered_messages_keyboard: the rows of the markup, none when it returns None.
FilteredMessagesKeyboard(page, total_pages) ==
    IF total_pages <= 1 THEN <<>>
    ELSE LET buttons ==
                 (IF page > 1
                  THEN <<[text |-> PREVIOUS_PAGE, callback_data |-> CallbackData(page - 1)]>>
                  ELSE <<>>)
                 \o (IF page < total_pages
                     THEN <<[text |-> NEXT_PAGE, callback_data |-> CallbackData(page + 1)]>>
                     ELSE <<>>)
         IN  IF buttons # <<>> THEN <<buttons>> ELSE <<>>

\* A variant of line 140 that rounds down.
TotalPages_Floor(total_count) == total_count \div MESSAGES_PER_PAGE

\* Line 140.
TotalPages(total_count) == (total_count + MESSAGES_PER_PAGE - 1) \div MESSAGES_PER_PAGE

ReplyText(text, keyboard) == [api |-> "reply_text", text |-> text, reply_markup |-> keyboard]

\* Lines 131-157: the calls of view_filtered once the user passed is_admin.  `fetched`
\* is what get_filtered_messages returned.
BrowseCalls(total_count, fetched) ==
    LET page == 1
        total_pages == TotalPages(total_count)
        offset == (page - 1) * MESSAGES_PER_PAGE
        count == <<[api |-> "get_filtered_messages_count"]>>
        fetch == <<[api |-> "get_filtered_messages", limit |-> MESSAGES_PER_PAGE,
                    offset |-> offset]>>
    IN  IF total_count = 0
        THEN count \o <<ReplyText(FixedText(NOT_FOUND), <<>>)>>
        ELSE IF fetched = <<>>
        THEN count \o fetch \o <<ReplyText(FixedText(NOT_FOUND), <<>>)>>
        ELSE count \o fetch
                 \o <<ReplyText(FormatFilteredMessages(fetched, page, total_pages),
                                FilteredMessagesKeyboard(page, total_pages))>>

\* A variant of view_filtered that reads the log before it tests the user.
ViewFilteredCalls_CountFirst(user_id, fetched) ==
    <<[api |-> "get_filtered_messages_count"], [api |-> "is_admin", user_id |-> user_id]>>
        \o (IF ~is_admin(user_id)
            THEN <<ReplyText(FixedText(NO_PERMISSION), <<>>)>>
            ELSE Tail(BrowseCalls(get_filtered_messages_count, fetched)))

\* view_filtered: the calls it awaits, in order.
ViewFilteredCalls(user_id, fetched) ==
    <<[api |-> "is_admin", user_id |-> user_id]>>
        \o (IF ~is_admin(user_id)
            THEN <<ReplyText(FixedText(NO_PERMISSION), <<>>)>>
            ELSE BrowseCalls(get_filtered_messages_count, fetched))

view_filtered ==
    /\ op = Idle
    /\ \E user_id \in UserIds :
        \* the page the log holds, or no record when the log was emptied after the count
        \E fetched \in {get_filtered_messages(MESSAGES_PER_PAGE, 0), <<>>} :
            /\ ~is_admin(user_id) => fetched = get_filtered_messages(MESSAGES_PER_PAGE, 0)
            /\ op' = "view_filtered"
            /\ args' = [user_id |-> user_id, fetched |-> fetched]
            /\ calls' = ViewFilteredCalls(user_id, fetched)
            /\ raised' = None
            /\ result' = [returned |-> None]
            /\ ServiceUnchanged

\* The pages a caller asks the keyboard of: those of the fullest log, and one past.
Pages == 1..(TotalPages(MaxRecords) + 1)

\* A call of _get_filtered_messages_keyboard(page, total_pages), the total pages
\* being those of the log as line 140 computes them.
_get_filtered_messages_keyboard ==
    /\ op = Idle
    /\ \E page \in Pages :
        LET total_pages == TotalPages(get_filtered_messages_count) IN
        /\ op' = "_get_filtered_messages_keyboard"
        /\ args' = [page |-> page, total_pages |-> total_pages]
        /\ result' = [keyboard |-> FilteredMessagesKeyboard(page, total_pages)]
        /\ calls' = <<>>
        /\ raised' = None
        /\ ServiceUnchanged

InitBrowser ==
    /\ adapter = None
    /\ filter_model_name = None
    /\ verification_model_name = None
    /\ admins \in {{}, {"777"}}
    /\ bindings = {}
    /\ filtered_messages \in Logs
    /\ op = Idle
    /\ args = NoRecord
    /\ result = NoRecord
    /\ raised = None
    /\ calls = <<>>
    /\ pre = Collapsed
    /\ last_init = "none"

NextBrowser ==
    \/ view_filtered
    \/ _get_filtered_messages_keyboard
    \/ Return

SpecBrowser == InitBrowser /\ [][NextBrowser]_vars

-----------------------------------------------------------------------------
(* Claims C1-C10 *)

ChallengeOps == {"generate_unblock_question", "generate_verification_challenge"}

\* C1: whenever the adapter is absent, or the filter model name is absent, or
\* ENABLE_AI_FILTER is off, analyze_message returns is_spam = false with the reason
\* "AI filter disabled" and makes no provider call, whatever the text and the image.
C1_DisabledFilterNeverFlags ==
    (/\ op = "analyze_message"
     /\ (adapter = None \/ Falsy(filter_model_name) \/ ~args.ENABLE_AI_FILTER))
        => /\ result = [is_spam |-> FALSE, reason |-> "AI filter disabled"]
           /\ calls = <<>>

\* C1 witness: an adapter and a filter model are set and the message has a text and a
\* decodable image; only the flag is off.
C1_Witness ==
    /\ op = "analyze_message"
    /\ adapter = "GeminiAdapter"
    /\ filter_model_name = "gemini-2.5-flash"
    /\ ~args.ENABLE_AI_FILTER
    /\ args.text = <<"h", "i">>
    /\ args.image_bytes = "png"
    /\ result.reason = "AI filter disabled"

\* The places of a list that hold the value x.
Places(list, x) == {i \in DOMAIN list : list[i] = x}

\* C2: every result of generate_unblock_question and generate_verification_challenge
\* has an options list of exactly 4 entries that holds correct_answer exactly once.
C2_FourOptionsOneCorrect ==
    op \in ChallengeOps
        => /\ Len(result.options) = 4
           /\ Cardinality(Places(result.options, result.correct_answer)) = 1

\* C6: for every response that holds "bao qian", or "wu fa gen ju xian you zhi shi ku",
\* anywhere, generate_autoreply returns the absent result.
C6_RefusalSuppressesReply ==
    (/\ op = "generate_autoreply"
     /\ args.provider.kind = "return"
     /\ args.provider.text # NoneText
     /\ \/ Contains(args.provider.text, <<"bao", "qian">>)
        \/ Contains(args.provider.text,
                    <<"wu", "fa", "gen", "ju", "xian", "you", "zhi", "shi", "ku">>))
        => result.absent

\* C6 witness: "bao qian" stands inside a response that starts and ends with other
\* text, and nothing is returned.
C6_Witness ==
    /\ op = "generate_autoreply"
    /\ args.provider.kind = "return"
    /\ args.provider.text = <<"a", "bao", "qian">>
    /\ Len(calls) = 1
    /\ result.absent

\* C7: a call of ModelService.initialize that raises leaves the three fields as they
\* were, and a call that returns has set all three.
C7_InitializeAllOrNothing ==
    op = "initialize"
        => /\ raised # None => Current = pre
           /\ raised = None
                => /\ adapter # None
                   /\ ~Falsy(filter_model_name)
                   /\ ~Falsy(verification_model_name)

\* The result is a question of the local bank: its question and correct answer are
\* those of one entry, and its options are the four answers of that entry.
FromLocalBank(question) ==
    \E i \in DOMAIN LOCAL_VERIFICATION_QUESTIONS :
        LET entry == LOCAL_VERIFICATION_QUESTIONS[i] IN
        /\ question.question = entry.question
        /\ question.correct_answer = entry.correct_answer
        /\ Len(question.options) = 4
        /\ Range(question.options) = Range(entry.incorrect_answers) \cup {entry.correct_answer}

\* C8: when _initialize_model_service ran without an API key, or initialize raised in
\* it, the three fields are absent whatever they were before; and until the next
\* initialization analyze_message returns the not-spam fallback, both generators
\* return a question of the local bank and generate_autoreply returns absent, none
\* of them calling the provider.
C8_CollapsedServiceFallsBack ==
    /\ (/\ op = "_initialize_model_service"
        /\ (Falsy(args.AI_API_KEY) \/ result.caught # None))
           => last_init = "collapsed"
    /\ last_init = "collapsed"
           => /\ adapter = None
              /\ filter_model_name = None
              /\ verification_model_name = None
              /\ op = "analyze_message"
                    => /\ result = [is_spam |-> FALSE, reason |-> "AI filter disabled"]
                       /\ calls = <<>>
              /\ op \in ChallengeOps => FromLocalBank(result) /\ calls = <<>>
              /\ op = "generate_autoreply" => result.absent /\ calls = <<>>

\* C8 witness: the service held a Gemini adapter; re-initialization as custom with a
\* base URL and no filter model raised after the custom adapter was built, and the
\* three fields ended absent.
C8_Witness ==
    /\ op = "_initialize_model_service"
    /\ pre.adapter = "GeminiAdapter"
    /\ args.AI_API_KEY = "key"
    /\ args.AI_PROVIDER = custom
    /\ args.AI_FILTER_MODEL = None
    /\ result.caught = "ValueError"
    /\ Len(calls) = 1
    /\ adapter = None

\* The spellings of the provider key custom the model hands to initialize.
CustomSpellings ==
    {<<"c", "u", "s", "t", "o", "m">>, <<"C", "u", "s", "t", "o", "m">>,
     <<"C", "U", "S", "T", "O", "M">>}

SupportedSpellings ==
    CustomSpellings \cup
        {<<"g", "e", "m", "i", "n", "i">>, <<"G", "e", "m", "i", "n", "i">>,
         <<"o", "p", "e", "n", "a", "i">>, <<"O", "P", "E", "N", "A", "I">>,
         <<"c", "l", "a", "u", "d", "e">>}

\* C9: initialize with the provider custom, in any letter case, raises the
\* configuration error when the base URL is absent, before any backend client is
\* built; it raises when a base URL is given and the filter model is absent; and an
\* unsupported provider key raises the configuration error.
C9_CustomConfigurationErrors ==
    op = "initialize"
        => /\ (args.provider \in CustomSpellings /\ Falsy(args.base_url))
                => /\ raised = "ValueError"
                   /\ result.message = "base_url required"
                   /\ calls = <<>>
           /\ (/\ args.provider \in CustomSpellings
               /\ ~Falsy(args.base_url)
               /\ Falsy(args.filter_model))
                => raised # None
           /\ (args.provider # NoneText /\ args.provider \notin SupportedSpellings)
                => /\ raised = "ValueError"
                   /\ result.message = "unsupported provider"
                   /\ calls = <<>>

\* C9 witness: CUSTOM in capitals with a base URL and the SDK present, and no filter
\* model: the client was built and the call raised.
C9_Witness ==
    /\ op = "initialize"
    /\ args.provider = <<"C", "U", "S", "T", "O", "M">>
    /\ ~Falsy(args.base_url)
    /\ args.filter_model = None
    /\ args.sdk_ok
    /\ raised = "ValueError"
    /\ Len(calls) = 1

\* C10: with the filter enabled, a message with no text and no decodable image yields
\* "No content to analyze" without a provider call; otherwise exactly one provider
\* call is made; a provider error or an empty response yields "Analysis failed", a
\* response that is no JSON document yields "Analysis failed - JSON parse error", both
\* with is_spam = false; a parsed document is returned as it is; so is_spam = true is
\* returned only when the response holds a document whose verdict is is_spam = true.
C10_AnalysisFailsOpen ==
    (/\ op = "analyze_message"
     /\ adapter # None /\ ~Falsy(filter_model_name) /\ args.ENABLE_AI_FILTER)
        => LET po == args.provider
               no_content == FalsyText(args.text) /\ args.image_bytes # "png"
               answered == po.kind = "return" /\ ~FalsyText(po.text)
           IN
           /\ no_content
                => /\ result = [is_spam |-> FALSE, reason |-> "No content to analyze"]
                   /\ calls = <<>>
           /\ ~no_content
                => /\ Len(calls) = 1
                   /\ calls[1].api = "generate_content"
                   /\ calls[1].model = filter_model_name
                   /\ ~answered =>
                        result = [is_spam |-> FALSE, reason |-> "Analysis failed"]
                   /\ (answered /\ ~JsonValid(clean_text(po.text), AnalysisDocuments)) =>
                        result = [is_spam |-> FALSE,
                                  reason |-> "Analysis failed - JSON parse error"]
                   /\ (answered /\ JsonValid(clean_text(po.text), AnalysisDocuments)) =>
                        result = AnalysisDocuments[clean_text(po.text)[1]]
           /\ result.is_spam => (answered /\ "V_SPAM" \in Range(po.text))

\* C10 witness: the provider raised on a message with a text, one call was made, and
\* the verdict is the not-spam "Analysis failed".
C10_Witness ==
    /\ op = "analyze_message"
    /\ args.ENABLE_AI_FILTER
    /\ args.text = <<"h", "i">>
    /\ args.provider.kind = "raise"
    /\ Len(calls) = 1
    /\ result = [is_spam |-> FALSE, reason |-> "Analysis failed"]

\* The fixed order of the kinds, and the send each kind calls for.
KindOrder ==
    <<"text", "photo", "animation", "video", "document", "audio", "voice",
      "video_note", "sticker">>

SendOf ==
    [text |-> "send_message", photo |-> "send_photo", animation |-> "send_animation",
     video |-> "send_video", document |-> "send_document", audio |-> "send_audio",
     voice |-> "send_voice", video_note |-> "send_video_note", sticker |-> "send_sticker"]

Captioned == {"photo", "animation", "video", "document", "audio", "voice"}

\* The populated kind that comes first in the fixed order.
FirstPopulated(message) ==
    KindOrder[CHOOSE i \in DOMAIN KindOrder :
                 /\ Populated(message, KindOrder[i])
                 /\ \A j \in 1..(i - 1) : ~Populated(message, KindOrder[j])]

\* The call is the send of the kind, with the file reference of the message (the last
\* size of a photo), and with the caption and its entities exactly for the kinds that
\* carry one; a text goes with its entities.
SendCarries(call, message, kind) ==
    /\ call.api = SendOf[kind]
    /\ call[kind] = IF kind = "photo" THEN message.photo[Len(message.photo)]
                    ELSE message[kind]
    /\ kind = "text" => call.entities = message.entities
    /\ kind \in Captioned
         => /\ call.caption = message.caption
            /\ call.caption_entities = message.caption_entities
    /\ kind \notin Captioned
         => /\ "caption" \notin DOMAIN call
            /\ "caption_entities" \notin DOMAIN call

\* C3: send_message_by_type makes exactly one send when a media field is populated:
\* that of the first populated kind in the fixed order, with its file reference,
\* with the caption for every kind but text, video-note and sticker, to the given chat
\* and thread; with no field populated it makes no send and returns None.
C3_OneSendOfFirstKind ==
    op = "send_message_by_type"
        => IF PopulatedKinds(args.message) = {}
           THEN calls = <<>> /\ result.returned = None /\ raised = None
           ELSE /\ Len(calls) = 1
                /\ SendCarries(calls[1], args.message, FirstPopulated(args.message))
                /\ calls[1].chat_id = args.chat_id
                /\ calls[1].message_thread_id = args.thread_id

\* C3 witness: a photo of two sizes with a sticker, sent into a thread: one send_photo
\* of the larger size.
C3_Witness ==
    /\ op = "send_message_by_type"
    /\ PopulatedKinds(args.message) = {"photo", "sticker"}
    /\ Len(args.message.photo) = 2
    /\ args.thread_id = "42"
    /\ Len(calls) = 1
    /\ calls[1].api = "send_photo"
    /\ calls[1].photo = "photo_s2"

\* The sends among the calls of a handler.
Sends(made) == SelectSeq(made, LAMBDA c : c.api \in Range(SendOf))

\* Replies to the staff chat among the calls of a handler.
Replies(made) == SelectSeq(made, LAMBDA c : c.api = "reply_text")

\* The message of the update is a topic message whose thread is bound to a user.
BoundTopicMessage ==
    /\ args.has_message
    /\ args.is_topic_message
    /\ \E row \in bindings : row.thread_id = args.message_thread_id

\* The lookup of the thread comes first; one send follows it, to the chat of the bound
\* user, with no thread, carrying what the message carries.
LookupThenOneSend ==
    /\ Len(calls) = 2
    /\ calls[1] = [api |-> "get_user_by_thread_id", thread_id |-> args.message_thread_id]
    /\ \E row \in bindings :
        /\ row.thread_id = args.message_thread_id
        /\ calls[2].chat_id = row.user_id
    /\ "message_thread_id" \notin DOMAIN calls[2]
    /\ PopulatedKinds(args.message) # {}
    /\ SendCarries(calls[2], args.message, FirstPopulated(args.message))

\* C4 as stated: with a binding handle_admin_reply looks the thread up and then makes
\* exactly one send to the bound user; without a topic message or a binding it makes
\* no send and no reply.
C4_BoundReplyAlwaysSent ==
    op = "handle_admin_reply"
        => IF BoundTopicMessage
           THEN LookupThenOneSend
           ELSE Sends(calls) = <<>> /\ Replies(calls) = <<>>

\* C4 as amended: with a binding and a populated media field handle_admin_reply looks
\* the thread up and then makes exactly one send to the bound user, with no thread,
\* carrying the text and entities or the media reference; with a binding and no
\* populated field it makes the lookup only; without a topic message or a binding it
\* makes no send and no reply.
C4_BoundReplySentWhenPopulated ==
    op = "handle_admin_reply"
        => /\ (BoundTopicMessage /\ PopulatedKinds(args.message) # {}) => LookupThenOneSend
           /\ (BoundTopicMessage /\ PopulatedKinds(args.message) = {})
                => calls = <<[api |-> "get_user_by_thread_id",
                              thread_id |-> args.message_thread_id]>>
           /\ ~BoundTopicMessage => Sends(calls) = <<>> /\ Replies(calls) = <<>>
           /\ ~(args.has_message /\ args.is_topic_message) => calls = <<>>

\* C4 witness: a text posted in thread 42, which is bound to user 777: the lookup,
\* then one send_message to chat 777 with the text and its entities.
C4_Witness ==
    /\ op = "handle_admin_reply"
    /\ args.is_topic_message /\ args.has_message
    /\ args.message_thread_id = "42"
    /\ [thread_id |-> "42", user_id |-> "777"] \in bindings
    /\ args.message.text = "resolved"
    /\ args.message.entities = "entities"
    /\ Len(calls) = 2
    /\ calls[1].api = "get_user_by_thread_id"
    /\ calls[2].api = "send_message"
    /\ calls[2].chat_id = "777"
    /\ calls[2].text = "resolved"

\* C5: for a user who fails is_admin, view_filtered makes the is_admin check and one
\* reply, the fixed denial, and nothing else: neither the count nor a page of the log
\* is read, so the calls are the same whatever the log holds.
C5_NonAdminDeniedWithoutReading ==
    (op = "view_filtered" /\ args.user_id \notin admins)
        => calls = <<[api |-> "is_admin", user_id |-> args.user_id],
                     [api |-> "reply_text",
                      text |-> [literal |-> NO_PERMISSION, header |-> <<>>,
                                entries |-> <<>>],
                      reply_markup |-> <<>>]>>

\* C5 witness: the log holds twelve records and the user is no admin.
C5_Witness ==
    /\ op = "view_filtered"
    /\ args.user_id \notin admins
    /\ admins # {}
    /\ Len(filtered_messages) = 12
    /\ Len(calls) = 2

-----------------------------------------------------------------------------
(* Claims C11-C17 *)

\* The provider call of a generator brought an object with the three fields, the
\* incorrect answers being a list.
CompleteAnswer(parse) ==
    /\ parse.token # None
    /\ {"question", "correct_answer", "incorrect_answers"}
           \subseteq ChallengeDocuments[parse.token].keys
    /\ ChallengeDocuments[parse.token].list

\* List a is list b in some order.
PermutationOf(a, b) ==
    /\ Len(a) = Len(b)
    /\ \E p \in Permutations(DOMAIN b) : a = [i \in DOMAIN b |-> b[p[i]]]

\* The question and the correct answer are those of an entry of the local bank, and
\* the options are the three incorrect answers and the correct answer of that entry
\* in some order.
BankEntryShuffled(question) ==
    \E i \in DOMAIN LOCAL_VERIFICATION_QUESTIONS :
        LET entry == LOCAL_VERIFICATION_QUESTIONS[i] IN
        /\ question.question = entry.question
        /\ question.correct_answer = entry.correct_answer
        /\ Len(entry.incorrect_answers) = 3
        /\ PermutationOf(question.options,
                         entry.incorrect_answers \o <<entry.correct_answer>>)

\* C11: both generators return a question and raise nothing, making at most one
\* provider call; when the adapter or the verification model name is absent, or the
\* call raised, came back empty, brought no JSON document or an object without one of
\* the three fields, the question and correct answer are those of one of the 29
\* entries of the local bank and the options are that entry's 3 incorrect answers and
\* its correct answer in some order.
C11_FailureFallsBackToBank ==
    op \in ChallengeOps
        => /\ raised = None
           /\ DOMAIN result = {"question", "correct_answer", "options"}
           /\ Len(calls) <= 1
           /\ NoVerificationModel(adapter, verification_model_name) => calls = <<>>
           /\ Len(LOCAL_VERIFICATION_QUESTIONS) = 29
           /\ ~CompleteAnswer(args.provider) => BankEntryShuffled(result)

\* C11 witness: the provider answered the verification challenge with an object that
\* has no question; one call was made and the question returned is from the bank.
C11_Witness ==
    /\ op = "generate_verification_challenge"
    /\ args.provider.token = "Q_NO_QUESTION"
    /\ Len(calls) = 1
    /\ BankEntryShuffled(result)

\* The texts of the controls of a keyboard, row by row.
Controls(keyboard) == [r \in DOMAIN keyboard |-> [b \in DOMAIN keyboard[r] |-> keyboard[r][b].text]]

\* The keyboard the operation handled last built: that of a call of
\* _get_filtered_messages_keyboard, or that of the listing view_filtered replied.
BuiltKeyboard ==
    IF op = "_get_filtered_messages_keyboard" THEN result.keyboard
    ELSE calls[Len(calls)].reply_markup

\* A keyboard was built for page `page` of a log of `total_count` records.
KeyboardBuiltFor(page, total_count) ==
    /\ Len(filtered_messages) = total_count
    /\ \/ op = "_get_filtered_messages_keyboard" /\ args.page = page
       \/ /\ op = "view_filtered" /\ page = 1
          /\ Len(calls) = 4
          /\ calls[4].text.literal = ""

\* C12 as stated: with 12 records and 5 to a page there are 3 pages; the keyboards of
\* page 1 and of page 2 hold a next-page control only, that of page 3 a previous-page
\* control only; with 1 record no keyboard is attached.
C12_PageTwoNextOnly ==
    /\ Len(filtered_messages) = 12 => TotalPages(Len(filtered_messages)) = 3
    /\ (KeyboardBuiltFor(1, 12) \/ KeyboardBuiltFor(2, 12))
           => Controls(BuiltKeyboard) = <<<<NEXT_PAGE>>>>
    /\ KeyboardBuiltFor(3, 12) => Controls(BuiltKeyboard) = <<<<PREVIOUS_PAGE>>>>
    /\ (\E page \in Pages : KeyboardBuiltFor(page, 1)) => BuiltKeyboard = <<>>

\* C12 as amended: with 12 records and 5 to a page there are 3 pages; the keyboard of
\* page 1 holds a next-page control only, that of page 2 a previous-page control and a
\* next-page control, that of page 3 a previous-page control only; with 1 record no
\* keyboard is attached.
C12_PageTwoBothControls ==
    /\ Len(filtered_messages) = 12 =>
          /\ TotalPages(Len(filtered_messages)) = 3
          /\ op = "_get_filtered_messages_keyboard" => args.total_pages = 3
          /\ (op = "view_filtered" /\ KeyboardBuiltFor(1, 12))
                 => calls[4].text.header = <<1, 3>>
    /\ KeyboardBuiltFor(1, 12) => Controls(BuiltKeyboard) = <<<<NEXT_PAGE>>>>
    /\ KeyboardBuiltFor(2, 12) => Controls(BuiltKeyboard) = <<<<PREVIOUS_PAGE, NEXT_PAGE>>>>
    /\ KeyboardBuiltFor(3, 12) => Controls(BuiltKeyboard) = <<<<PREVIOUS_PAGE>>>>
    /\ (\E page \in Pages : KeyboardBuiltFor(page, 1)) => BuiltKeyboard = <<>>

\* C12 witness: the keyboard of page 2 of a log of 12 records was built, one row of
\* two controls.
C12_Witness ==
    /\ op = "_get_filtered_messages_keyboard"
    /\ Len(filtered_messages) = 12
    /\ args.page = 2
    /\ args.total_pages = 3
    /\ Len(result.keyboard) = 1
    /\ Len(result.keyboard[1]) = 2

\* The controls of a keyboard whose text is `text`.
ControlsNamed(keyboard, text) ==
    UNION {{keyboard[r][b] : b \in {c \in DOMAIN keyboard[r] : keyboard[r][c].text = text}} :
               r \in DOMAIN keyboard}

\* n is the least number of pages of 5 that hold total_count records.
CeilingOfFifth(n, total_count) == 5 * (n - 1) < total_count /\ total_count <= 5 * n

\* The keyboard of page `page` of `total_pages`: at most one row; a previous-page
\* control, with the payload of page - 1, exactly when page > 1; a next-page control,
\* with the payload of page + 1, exactly when page < total_pages; the targets within
\* 1..total_pages; no row when there is one page.
KeyboardAsPaged(keyboard, page, total_pages) ==
    /\ Len(keyboard) <= 1
    /\ \A r \in DOMAIN keyboard :
          /\ keyboard[r] # <<>>
          /\ Cardinality(Range(keyboard[r])) = Len(keyboard[r])
          /\ \A b \in DOMAIN keyboard[r] :
                /\ keyboard[r][b].text \in {PREVIOUS_PAGE, NEXT_PAGE}
                /\ keyboard[r][b].callback_data.page \in 1..total_pages
    /\ ControlsNamed(keyboard, PREVIOUS_PAGE) =
          IF page > 1 THEN {[text |-> PREVIOUS_PAGE, callback_data |-> CallbackData(page - 1)]}
          ELSE {}
    /\ ControlsNamed(keyboard, NEXT_PAGE) =
          IF page < total_pages
          THEN {[text |-> NEXT_PAGE, callback_data |-> CallbackData(page + 1)]}
          ELSE {}
    /\ (page > 1 /\ page < total_pages) => Len(keyboard[1]) = 2
    /\ total_pages = 1 => keyboard = <<>>

\* C13: for every log of at least one record, the total pages are the ceiling of the
\* count over 5; for every page of 1..total_pages the keyboard has a previous-page
\* control exactly when page > 1 and a next-page control exactly when
\* page < total_pages, on one row, with the payloads filtered_page_{page - 1} and
\* filtered_page_{page + 1}, the targets within 1..total_pages; with one page there is
\* no row and view_filtered replies the listing with no markup.
C13_KeyboardFollowsPage ==
    LET total_count == Len(filtered_messages) IN
    /\ (op = "_get_filtered_messages_keyboard" /\ total_count >= 1)
          => /\ CeilingOfFifth(args.total_pages, total_count)
             /\ args.page \in 1..args.total_pages
                   => KeyboardAsPaged(result.keyboard, args.page, args.total_pages)
    /\ (op = "view_filtered" /\ KeyboardBuiltFor(1, total_count))
          => /\ total_count >= 1
             /\ \E n \in 1..total_count :
                   /\ CeilingOfFifth(n, total_count)
                   /\ calls[4].text.header = <<1, n>>
                   /\ KeyboardAsPaged(calls[4].reply_markup, 1, n)

\* C13 witness: view_filtered listed a log of 6 records, two pages: the reply carries
\* one row with the next-page control to page 2.
C13_Witness ==
    /\ op = "view_filtered"
    /\ Len(filtered_messages) = 6
    /\ Len(calls) = 4
    /\ calls[4].text.header = <<1, 2>>
    /\ calls[4].reply_markup = <<<<[text |-> NEXT_PAGE, callback_data |-> CallbackData(2)]>>>>

\* view_filtered replied a listing: its entries are those of the first records of
\* the log.
Listed ==
    /\ op = "view_filtered"
    /\ Len(calls) = 4
    /\ calls[4].text.literal = ""

\* The first 100 characters of a content and three dots.
Cut(content) == SubSeq(content, 1, 100) \o <<".", ".", ".">>

\* C14 as stated: in a listing, a content of more than 100 characters is shown as its
\* first 100 characters and three dots, a content of 0 to 100 characters as it is,
\* and an absent content as N/A.
C14_ShortContentUnmodified ==
    Listed =>
        \A idx \in DOMAIN calls[4].text.entries :
            LET content == filtered_messages[idx].content
                shown == calls[4].text.entries[idx].content
            IN  /\ content = NoneText => shown = <<"N", "/", "A">>
                /\ (content # NoneText /\ Len(content) > 100) => shown = Cut(content)
                /\ (content # NoneText /\ Len(content) <= 100) => shown = content

\* C14 as amended: in a listing, a content of more than 100 characters is shown as
\* its first 100 characters and three dots, a content of 1 to 100 characters as it
\* is, and an absent or empty content as N/A.
C14_EmptyContentShownAsNA ==
    Listed =>
        /\ DOMAIN calls[4].text.entries = 1..Min(5, Len(filtered_messages))
        /\ \A idx \in DOMAIN calls[4].text.entries :
            LET content == filtered_messages[idx].content
                shown == calls[4].text.entries[idx].content
            IN  /\ (content = NoneText \/ content = <<>>) => shown = <<"N", "/", "A">>
                /\ (content # NoneText /\ Len(content) > 100) => shown = Cut(content)
                /\ (content # NoneText /\ Len(content) \in 1..100) => shown = content

\* C14 witness: the first record of the listing has a content of 101 characters,
\* shown as 103.
C14_Witness ==
    /\ Listed
    /\ filtered_messages[1].content # NoneText
    /\ Len(filtered_messages[1].content) = 101
    /\ Len(calls[4].text.entries[1].content) = 103

\* A call without its argument `key`.
WithoutArgument(call, key) == [k \in DOMAIN call \ {key} |-> call[k]]

\* The call of send_message_by_type(bot, message, user_id, None, suppress) for a
\* message with a populated media field.
RelayCall(message, user_id, suppress) == SendByTypeCalls(message, user_id, None, suppress)[1]

\* The two calls are one call: the thread of the second is None, which is what the
\* first, naming no thread, leaves it at; the other arguments are equal.
SameSend(direct, relayed) ==
    /\ "message_thread_id" \notin DOMAIN direct
    /\ relayed.message_thread_id = None
    /\ direct = WithoutArgument(relayed, "message_thread_id")

\* handle_admin_reply sent the message to the user `user_id` its thread is bound to.
RepliedTo(user_id) ==
    /\ op = "handle_admin_reply"
    /\ Len(calls) = 2
    /\ [thread_id |-> args.message_thread_id, user_id |-> user_id] \in bindings

\* C15 as stated: the send of the admin reply relay to the bound user is the call
\* send_message_by_type makes for the same message and user with no thread and
\* disable_web_page_preview = False.
C15_ReplyIsRelayWithPreview ==
    \A user_id \in UserIds :
        RepliedTo(user_id) => SameSend(calls[2], RelayCall(args.message, user_id, FALSE))

\* C15 as amended: the send of the admin reply relay to the bound user is the call
\* send_message_by_type makes for the same message and user with no thread: the same
\* send, file reference, caption and entities; and for a text message with
\* disable_web_page_preview = True, the link preview being suppressed.
C15_ReplyIsRelayWithoutPreview ==
    \A user_id \in UserIds :
        RepliedTo(user_id) =>
            /\ SameSend(calls[2], RelayCall(args.message, user_id, TRUE))
            /\ calls[2].api = "send_message" => calls[2].disable_web_page_preview = TRUE
            /\ calls[2].api # "send_message" =>
                   SameSend(calls[2], RelayCall(args.message, user_id, FALSE))

\* C15 witness: a text posted in thread 43, bound to user 778, went out as a
\* send_message to chat 778 with the link preview suppressed.
C15_Witness ==
    /\ RepliedTo("778")
    /\ args.message_thread_id = "43"
    /\ args.message.text = "resolved"
    /\ calls[2].api = "send_message"
    /\ calls[2].chat_id = "778"
    /\ calls[2].disable_web_page_preview = TRUE

\* The text is absent, or each of its characters (if any) is whitespace.
AbsentOrBlank(text) == text = NoneText \/ \A i \in DOMAIN text : text[i] = " "

\* C16: whenever the knowledge-base text is absent, empty or whitespace only,
\* generate_autoreply returns absent and makes no provider call, whatever the user
\* message and the adapter.
C16_BlankKnowledgeBaseNoCall ==
    (op = "generate_autoreply" /\ AbsentOrBlank(args.knowledge_base_content))
        => /\ result.absent
           /\ calls = <<>>
           /\ raised = None
           /\ args.provider.kind = "none"

\* C16 witness: with an OpenAI adapter and a filter model set, a knowledge base of
\* two spaces gave absent without a call.
C16_Witness ==
    /\ op = "generate_autoreply"
    /\ adapter = "OpenAIAdapter"
    /\ ~Falsy(filter_model_name)
    /\ args.knowledge_base_content = <<" ", " ">>
    /\ args.user_message = <<"q">>
    /\ result.absent
    /\ calls = <<>>

\* C17: every result of generate_autoreply that is not absent is a text of at least
\* one character with no whitespace at either end; the empty text is never returned,
\* also for a response of whitespace only.
C17_ReplyNeverEmpty ==
    (op = "generate_autoreply" /\ ~result.absent)
        => /\ Len(result.text) >= 1
           /\ result.text[1] # " "
           /\ result.text[Len(result.text)] # " "

=============================================================================
